---- MODULE Spec2Model ----
(***************************************************************************)
(* ID3v2 frame-content decoding (src/id3/v2/frame/content.rs).             *)
(*                                                                         *)
(* Bytes are numbers 0..255, byte slices and decoded strings are           *)
(* sequences (a string is the sequence of its code points), frame          *)
(* identifiers are sequences of one-character strings.  A Result is a      *)
(* record with a tag: "Ok" (verify_encoding), "OkNone" / "OkSome" (the     *)
(* parsers' Result<Option<FrameValue>>), "Err", and "Panic" for the        *)
(* unreachable!() arm of parse_text_language.                              *)
(***************************************************************************)
EXTENDS Integers, Sequences, FiniteSets

VARIABLES pc, id, version, content, marker, cursor, arm, result, prev

vars == <<pc, id, version, content, marker, cursor, arm, result, prev>>

----------------------------------------------------------------------------
(* Bounds of the input space.                                              *)

\* longest content drawn exhaustively over Byte
MaxLen == 4
\* longest run, drawn exhaustively over Byte, after the 4-byte head of a language frame
MaxTail == 3
\* longest content of the two-call specification
PairMaxLen == 3

\* 0: terminator / Latin-1 marker, 1: UTF-16 marker, 2: UTF-16BE marker (illegal on
\* V2), 104: 'h', also a marker that maps to no encoding, 255: a byte that is no UTF-8
Byte == {0, 1, 2, 104, 255}

U8 == 0..255

Versions == {"V2", "V3", "V4"}

RECURSIVE SeqsUpTo(_, _)
SeqsUpTo(S, n) ==
    IF n = 0 THEN {<<>>}
    ELSE LET shorter == SeqsUpTo(S, n - 1)
         IN  shorter \cup {Append(s, b) : s \in {t \in shorter : Len(t) = n - 1}, b \in S}

----------------------------------------------------------------------------
(* Results.                                                                *)

Ok(e) == [tag |-> "Ok", value |-> e]
OkNone == [tag |-> "OkNone"]
OkSome(v) == [tag |-> "OkSome", value |-> v]
Err(kind, msg) == [tag |-> "Err", kind |-> kind, msg |-> msg]
Panic == [tag |-> "Panic"]
Pending == [tag |-> "Pending"]

Drop(s, n) == SubSeq(s, n + 1, Len(s))
Take(s, n) == SubSeq(s, 1, n)

----------------------------------------------------------------------------
(* crate::util::text (TextEncoding, decode_text): not among the sources;   *)
(* modelled from the specification's sections 3 and 4.6.                   *)

TextEncoding_from_u8(b) ==
    CASE b = 0 -> [tag |-> "Some", value |-> "Latin1"]
      [] b = 1 -> [tag |-> "Some", value |-> "UTF16"]
      [] b = 2 -> [tag |-> "Some", value |-> "UTF16BE"]
      [] b = 3 -> [tag |-> "Some", value |-> "UTF8"]
      [] OTHER -> [tag |-> "None"]

\* index of the first zero byte of s, 0 when there is none
RECURSIVE FirstZeroFrom(_, _)
FirstZeroFrom(s, i) ==
    IF i > Len(s) THEN 0
    ELSE IF s[i] = 0 THEN i
    ELSE FirstZeroFrom(s, i + 1)

\* index of the first code-unit-aligned zero pair of s, 0 when there is none
RECURSIVE FirstZeroPairFrom(_, _)
FirstZeroPairFrom(s, i) ==
    IF i + 1 > Len(s) THEN 0
    ELSE IF s[i] = 0 /\ s[i + 1] = 0 THEN i
    ELSE FirstZeroPairFrom(s, i + 2)

\* The bytes of one terminated field and the cursor after it: up to the
\* encoding's terminator, which is consumed, or to the end of the buffer.
\* The last byte of an odd-length UTF-16 buffer belongs to no code unit: it
\* is consumed and not decoded.
split_at_pair(cur, z) ==
    IF z = 0
    THEN [raw |-> Take(cur, Len(cur) - (Len(cur) % 2)), cursor |-> <<>>]
    ELSE [raw |-> Take(cur, z - 1), cursor |-> Drop(cur, z + 1)]

split_at_byte(cur, z) ==
    IF z = 0
    THEN [raw |-> cur, cursor |-> <<>>]
    ELSE [raw |-> Take(cur, z - 1), cursor |-> Drop(cur, z)]

read_to_terminator(cur, encoding) ==
    IF encoding \in {"UTF16", "UTF16BE"}
    THEN split_at_pair(cur, FirstZeroPairFrom(cur, 1))
    ELSE split_at_byte(cur, FirstZeroFrom(cur, 1))

Unit(hi, lo) == hi * 256 + lo

Bad == [ok |-> FALSE, text |-> <<>>]
Good(s) == [ok |-> TRUE, text |-> s]
Cons(cp, r) == IF r.ok THEN Good(<<cp>> \o r.text) ELSE Bad

\* UTF-16 code units, taken pairwise from an even-length byte run, to code
\* points; Bad for a surrogate that is not half of a pair.
RECURSIVE utf16_decode(_, _)
utf16_decode(bytes, big_endian) ==
    IF Len(bytes) = 0 THEN Good(<<>>)
    ELSE LET u == IF big_endian THEN Unit(bytes[1], bytes[2]) ELSE Unit(bytes[2], bytes[1])
         IN  IF u < 55296 \/ u > 57343
             THEN Cons(u, utf16_decode(Drop(bytes, 2), big_endian))
             ELSE IF u > 56319 \/ Len(bytes) < 4 THEN Bad
             ELSE LET w == IF big_endian THEN Unit(bytes[3], bytes[4])
                                         ELSE Unit(bytes[4], bytes[3])
                  IN  IF w < 56320 \/ w > 57343 THEN Bad
                      ELSE Cons(65536 + (u - 55296) * 1024 + (w - 56320),
                                utf16_decode(Drop(bytes, 4), big_endian))

IsCont(b) == b >= 128 /\ b <= 191

\* UTF-8 to code points; Bad for a malformed sequence.
RECURSIVE utf8_decode(_)
utf8_decode(bytes) ==
    IF Len(bytes) = 0 THEN Good(<<>>)
    ELSE LET b == bytes[1]
             n == IF b < 128 THEN 1
                  ELSE IF b >= 194 /\ b <= 223 THEN 2
                  ELSE IF b >= 224 /\ b <= 239 THEN 3
                  ELSE IF b >= 240 /\ b <= 244 THEN 4
                  ELSE 0
         IN  IF n = 0 \/ Len(bytes) < n THEN Bad
             ELSE IF \E k \in 2..n : ~IsCont(bytes[k]) THEN Bad
             ELSE LET cp == CASE n = 1 -> b
                              [] n = 2 -> (b - 192) * 64 + (bytes[2] - 128)
                              [] n = 3 -> (b - 224) * 4096 + (bytes[2] - 128) * 64
                                          + (bytes[3] - 128)
                              [] n = 4 -> (b - 240) * 262144 + (bytes[2] - 128) * 4096
                                          + (bytes[3] - 128) * 64 + (bytes[4] - 128)
                      low == CASE n = 1 -> 0 [] n = 2 -> 128 [] n = 3 -> 2048
                               [] n = 4 -> 65536
                  IN  IF cp < low \/ cp > 1114111 \/ (cp >= 55296 /\ cp <= 57343)
                      THEN Bad
                      ELSE Cons(cp, utf8_decode(Drop(bytes, n)))

TextOrErr(r, msg) == IF r.ok THEN Ok(r.text) ELSE Err("TextDecode", msg)

\* The text of a byte run in an encoding, or the decode error.
decode_bytes(raw, encoding) ==
    CASE encoding = "Latin1" -> Ok([i \in 1..Len(raw) |-> raw[i]])
      [] encoding = "UTF16" ->
            IF Len(raw) < 2 \/ Len(raw) % 2 # 0
            THEN Err("TextDecode", "UTF-16 string has an invalid length")
            ELSE IF raw[1] = 254 /\ raw[2] = 255
            THEN TextOrErr(utf16_decode(Drop(raw, 2), TRUE), "Given an invalid UTF-16 string")
            ELSE IF raw[1] = 255 /\ raw[2] = 254
            THEN TextOrErr(utf16_decode(Drop(raw, 2), FALSE), "Given an invalid UTF-16 string")
            ELSE Err("TextDecode", "UTF-16 string has an invalid byte order mark")
      [] encoding = "UTF16BE" ->
            IF Len(raw) % 2 # 0
            THEN Err("TextDecode", "UTF-16 string has an invalid length")
            ELSE TextOrErr(utf16_decode(raw, TRUE), "Given an invalid UTF-16 string")
      [] encoding = "UTF8" -> TextOrErr(utf8_decode(raw), "Expected a UTF-8 string")

\* decode_text(content, encoding, terminated): Ok(None) when no byte was
\* there to decode, Ok(Some(text)) or the decode error otherwise, and the
\* cursor past what was consumed, terminator included.
OkText(d) == IF d.tag = "Err" THEN d ELSE OkSome(d.value)

decode_raw(r, encoding) ==
    IF Len(r.raw) = 0 THEN [result |-> OkNone, cursor |-> r.cursor]
    ELSE [result |-> OkText(decode_bytes(r.raw, encoding)), cursor |-> r.cursor]

decode_text(cur, encoding, terminated) ==
    decode_raw(IF terminated THEN read_to_terminator(cur, encoding)
               ELSE [raw |-> cur, cursor |-> <<>>],
               encoding)

\* Option<String>::unwrap_or_default
unwrap_or_default(r) == IF r.tag = "OkSome" THEN r.value ELSE <<>>

----------------------------------------------------------------------------
(* verify_encoding                                                         *)

\* verify_encoding without the check of the version
verify_encoding_unversioned(encoding, ver) ==
    LET e == TextEncoding_from_u8(encoding)
    IN  IF e.tag = "None" THEN Err("TextDecode", "Found invalid encoding")
        ELSE Ok(e.value)

verify_encoding(encoding, ver) ==
    IF ver = "V2" /\ (encoding # 0 /\ encoding # 1)
    THEN Err("V2InvalidTextEncoding", "")
    ELSE LET e == TextEncoding_from_u8(encoding)
         IN  IF e.tag = "None" THEN Err("TextDecode", "Found invalid encoding")
             ELSE Ok(e.value)

----------------------------------------------------------------------------
(* Frame values and identifiers.                                           *)

Text(encoding, value) == [variant |-> "Text", encoding |-> encoding, value |-> value]
URL(link) == [variant |-> "URL", value |-> link]
Binary(bytes) == [variant |-> "Binary", value |-> bytes]
LanguageFrame(encoding, language, description, text) ==
    [encoding |-> encoding, language |-> language, description |-> description,
     content |-> text]
Comment(information) == [variant |-> "Comment", information |-> information]
UnSyncText(information) == [variant |-> "UnSyncText", information |-> information]
\* the values of the compound item parsers; their layout is not modelled
Compound(variant) == [variant |-> variant]

APIC == <<"A", "P", "I", "C">>
TXXX == <<"T", "X", "X", "X">>
WXXX == <<"W", "X", "X", "X">>
COMM == <<"C", "O", "M", "M">>
USLT == <<"U", "S", "L", "T">>
UFID == <<"U", "F", "I", "D">>
WFED == <<"W", "F", "E", "D">>
GRP1 == <<"G", "R", "P", "1">>
MVNM == <<"M", "V", "N", "M">>
MVIN == <<"M", "V", "I", "N">>
POPM == <<"P", "O", "P", "M">>
TIT2 == <<"T", "I", "T", "2">>
WOAR == <<"W", "O", "A", "R">>
SYLT == <<"S", "Y", "L", "T">>
GEOB == <<"G", "E", "O", "B">>
\* three-character identifiers of the oldest version
TT2 == <<"T", "T", "2">>
WAR == <<"W", "A", "R">>

Ids ==
    {APIC, TXXX, WXXX, COMM, USLT, UFID, WFED, GRP1, MVNM, MVIN, POPM, TIT2, WOAR, SYLT,
     GEOB, TT2, WAR}

starts_with(s, ch) == Len(s) > 0 /\ s[1] = ch

----------------------------------------------------------------------------
(* The generic field parsers.  Each gives the Result and the cursor it     *)
(* leaves.                                                                 *)

\* lines 81-86: the decoded field, or its error, as the Text value
text_value(encoding, text) ==
    IF text.result.tag = "Err" THEN text
    ELSE [result |-> OkSome(Text(encoding, unwrap_or_default(text.result))),
          cursor |-> text.cursor]

\* parse_text that asks for one byte only
parse_text_min1(cur, ver) ==
    IF Len(cur) < 1 THEN [result |-> OkNone, cursor |-> cur]
    ELSE LET encoding == verify_encoding(Head(cur), ver)
         IN  IF encoding.tag = "Err" THEN [result |-> encoding, cursor |-> Tail(cur)]
             ELSE text_value(encoding.value, decode_text(Tail(cur), encoding.value, TRUE))

\* parse_text that asks for two bytes after the marker
parse_text_min3(cur, ver) ==
    IF Len(cur) < 3 THEN [result |-> OkNone, cursor |-> cur]
    ELSE LET encoding == verify_encoding(Head(cur), ver)
         IN  IF encoding.tag = "Err" THEN [result |-> encoding, cursor |-> Tail(cur)]
             ELSE text_value(encoding.value, decode_text(Tail(cur), encoding.value, TRUE))

\* parse_text that decodes to the end of the buffer
parse_text_to_end(cur, ver) ==
    IF Len(cur) < 2 THEN [result |-> OkNone, cursor |-> cur]
    ELSE LET encoding == verify_encoding(Head(cur), ver)
         IN  IF encoding.tag = "Err" THEN [result |-> encoding, cursor |-> Tail(cur)]
             ELSE text_value(encoding.value, decode_text(Tail(cur), encoding.value, FALSE))

parse_text(cur, ver) ==
    IF Len(cur) < 2 THEN [result |-> OkNone, cursor |-> cur]
    ELSE LET encoding == verify_encoding(Head(cur), ver)
         IN  IF encoding.tag = "Err" THEN [result |-> encoding, cursor |-> Tail(cur)]
             ELSE text_value(encoding.value, decode_text(Tail(cur), encoding.value, TRUE))

\* lines 94-96
link_value(link) ==
    IF link.result.tag = "Err" THEN link
    ELSE [result |-> OkSome(URL(unwrap_or_default(link.result))), cursor |-> link.cursor]

\* parse_link that takes the first byte for an encoding marker and skips it
parse_link_marker(cur) ==
    IF Len(cur) = 0 THEN [result |-> OkNone, cursor |-> cur]
    ELSE link_value(decode_text(Tail(cur), "Latin1", TRUE))

parse_link(cur) ==
    IF Len(cur) = 0 THEN [result |-> OkNone, cursor |-> cur]
    ELSE link_value(decode_text(cur, "Latin1", TRUE))

\* language_value that picks the variant by the description instead of the identifier
language_value_by_content(ident, encoding, language, description, text) ==
    IF text.result.tag = "Err" THEN text
    ELSE [result |->
              IF Len(description) > 0
              THEN OkSome(Comment(LanguageFrame(encoding, language, description,
                                                unwrap_or_default(text.result))))
              ELSE OkSome(UnSyncText(LanguageFrame(encoding, language, description,
                                                   unwrap_or_default(text.result)))),
          cursor |-> text.cursor]

\* lines 57-72: the content field, or its error; the record; the variant by id
language_value(ident, encoding, language, description, text) ==
    IF text.result.tag = "Err" THEN text
    ELSE [result |->
              IF ident = COMM
              THEN OkSome(Comment(LanguageFrame(encoding, language, description,
                                                unwrap_or_default(text.result))))
              ELSE IF ident = USLT
              THEN OkSome(UnSyncText(LanguageFrame(encoding, language, description,
                                                   unwrap_or_default(text.result))))
              ELSE Panic,
          cursor |-> text.cursor]

\* language_fields that stops the content field at a terminator too
language_fields_terminated(ident, encoding, language, description) ==
    IF description.result.tag = "Err" THEN description
    ELSE language_value(ident, encoding, language, unwrap_or_default(description.result),
                        decode_text(description.cursor, encoding, TRUE))

\* lines 56-57: the description field, or its error, then the content field to the end
language_fields(ident, encoding, language, description) ==
    IF description.result.tag = "Err" THEN description
    ELSE language_value(ident, encoding, language, unwrap_or_default(description.result),
                        decode_text(description.cursor, encoding, FALSE))

parse_text_language(cur, ident, ver) ==
    IF Len(cur) < 5 THEN [result |-> OkNone, cursor |-> cur]
    ELSE LET encoding == verify_encoding(Head(cur), ver)
         IN  IF encoding.tag = "Err" THEN [result |-> encoding, cursor |-> Tail(cur)]
             ELSE language_fields(ident, encoding.value, SubSeq(cur, 2, 4),
                                  decode_text(Drop(cur, 4), encoding.value, TRUE))

----------------------------------------------------------------------------
(* The compound item parsers (AttachedPictureFrame, ExtendedTextFrame,     *)
(* ExtendedUrlFrame, UniqueFileIdentifierFrame, Popularimeter) are not     *)
(* among the sources.  ext is what such a parser does with the content:    *)
(* whether it succeeds (ok), whether it finds a value (present), and how   *)
(* many bytes it consumes.                                                 *)

ExtOutcomes(cur) == [ok : BOOLEAN, present : BOOLEAN, consumed : 0..Len(cur)]

\* parse(..) -> Result<Option<Self>>
parse_optional(cur, ext, variant) ==
    [result |-> IF ~ext.ok THEN Err("External", "")
                ELSE IF ext.present THEN OkSome(Compound(variant))
                ELSE OkNone,
     cursor |-> Drop(cur, ext.consumed)]

\* parse(..) -> Result<Self>
parse_value(cur, ext, variant) ==
    [result |-> IF ext.ok THEN OkSome(Compound(variant)) ELSE Err("External", ""),
     cursor |-> Drop(cur, ext.consumed)]

----------------------------------------------------------------------------
(* parse_content                                                           *)

\* select_arm with the prefix rules ahead of the exact matches
select_arm_prefix_first(ident) ==
    IF starts_with(ident, "T") THEN "text"
    ELSE IF starts_with(ident, "W") THEN "link"
    ELSE IF ident = APIC THEN "APIC"
    ELSE IF ident = TXXX THEN "TXXX"
    ELSE IF ident = WXXX THEN "WXXX"
    ELSE IF ident = COMM \/ ident = USLT THEN "language"
    ELSE IF ident = UFID THEN "UFID"
    ELSE IF ident = WFED \/ ident = GRP1 \/ ident = MVNM \/ ident = MVIN THEN "apple_text"
    ELSE IF ident = POPM THEN "POPM"
    ELSE "binary"

\* select_arm with SYLT added to the language frames
select_arm_sylt_language(ident) ==
    IF ident = APIC THEN "APIC"
    ELSE IF ident = TXXX THEN "TXXX"
    ELSE IF ident = WXXX THEN "WXXX"
    ELSE IF ident = COMM \/ ident = USLT \/ ident = SYLT THEN "language"
    ELSE IF ident = UFID THEN "UFID"
    ELSE IF starts_with(ident, "T") THEN "text"
    ELSE IF ident = WFED \/ ident = GRP1 \/ ident = MVNM \/ ident = MVIN THEN "apple_text"
    ELSE IF starts_with(ident, "W") THEN "link"
    ELSE IF ident = POPM THEN "POPM"
    ELSE "binary"

\* the arm of the match on id that is taken: the first whose pattern matches
select_arm(ident) ==
    IF ident = APIC THEN "APIC"
    ELSE IF ident = TXXX THEN "TXXX"
    ELSE IF ident = WXXX THEN "WXXX"
    ELSE IF ident = COMM \/ ident = USLT THEN "language"
    ELSE IF ident = UFID THEN "UFID"
    ELSE IF starts_with(ident, "T") THEN "text"
    ELSE IF ident = WFED \/ ident = GRP1 \/ ident = MVNM \/ ident = MVIN THEN "apple_text"
    ELSE IF starts_with(ident, "W") THEN "link"
    ELSE IF ident = POPM THEN "POPM"
    ELSE "binary"

\* a fallback that drains the cursor
binary_fallback_drained(cur) == [result |-> OkSome(Binary(cur)), cursor |-> <<>>]

\* content.to_vec() copies the remaining bytes; the cursor is not advanced
binary_fallback(cur) == [result |-> OkSome(Binary(cur)), cursor |-> cur]

run_arm(a, cur, ident, ver, ext) ==
    CASE a = "APIC" -> parse_value(cur, ext, "Picture")
      [] a = "TXXX" -> parse_optional(cur, ext, "UserText")
      [] a = "WXXX" -> parse_optional(cur, ext, "UserURL")
      [] a = "language" -> parse_text_language(cur, ident, ver)
      [] a = "UFID" -> parse_optional(cur, ext, "UniqueFileIdentifier")
      [] a = "text" -> parse_text(cur, ver)
      [] a = "apple_text" -> parse_text(cur, ver)
      [] a = "link" -> parse_link(cur)
      [] a = "POPM" -> parse_value(cur, ext, "Popularimeter")
      [] a = "binary" -> binary_fallback(cur)

parse_content(cur, ident, ver, ext) == run_arm(select_arm(ident), cur, ident, ver, ext)

----------------------------------------------------------------------------
(* Inputs.                                                                 *)

Languages == {<<101, 110, 103>>, <<0, 104, 0>>}

\* every content up to MaxLen bytes over Byte
ShortContents == SeqsUpTo(Byte, MaxLen)

\* a marker, a language code and every run up to MaxTail bytes over Byte
LanguageContents ==
    {<<m>> \o l \o t : m \in Byte, l \in Languages, t \in SeqsUpTo(Byte, MaxTail)}

\* longer contents: Latin-1, UTF-16 and UTF-8 frames with and without
\* terminators, trailing runs and malformed payloads
Scenarios ==
    { <<0, 101, 110, 103, 0, 104, 105, 0>>,
      <<104, 116, 116, 112>>,
      <<104, 116, 116, 112, 0, 104>>,
      <<0, 104, 105, 0, 1, 2>>,
      <<1, 255, 254, 104, 0, 0, 0, 2>>,
      <<1, 101, 110, 103, 255, 254, 104, 0, 0, 0, 254, 255, 0, 105>>,
      <<3, 104, 195, 169, 0, 104>>,
      <<3, 101, 110, 103, 104, 0, 195, 40>> }

Contents == ShortContents \cup LanguageContents \cup Scenarios

PairContents == SeqsUpTo(Byte, PairMaxLen) \cup Scenarios

CompoundArms == {"APIC", "TXXX", "WXXX", "UFID", "POPM"}

NoExt == [ok |-> TRUE, present |-> TRUE, consumed |-> 0]

NoCall == [tag |-> "none"]

----------------------------------------------------------------------------
(* The engine holds no state between calls: it is idle until the container *)
(* parser calls it, and a call runs to its return in one step.             *)

Init ==
    /\ pc = "idle"
    /\ id = <<>>
    /\ version = "V4"
    /\ content = <<>>
    /\ marker = 0
    /\ cursor = <<>>
    /\ arm = "none"
    /\ result = Pending
    /\ prev = NoCall

\* the call has returned r; arm records the match arm that was taken
Returned(c, i, v, r) ==
    /\ pc' = "parse_content"
    /\ id' = i
    /\ version' = v
    /\ content' = c
    /\ cursor' = r.cursor
    /\ arm' = select_arm(i)
    /\ result' = r.result
    /\ UNCHANGED <<marker, prev>>

\* parse_content(content, id, version) on a content of cs and an identifier of is
Call(cs, is) ==
    \E c \in cs, i \in is, v \in Versions :
        \E ext \in IF select_arm(i) \in CompoundArms THEN ExtOutcomes(c) ELSE {NoExt} :
            Returned(c, i, v, parse_content(c, i, v, ext))

ParseContent ==
    /\ pc = "idle"
    /\ Call(Contents, Ids)

\* verify_encoding(encoding, version), as the compound parsers call it
VerifyEncoding ==
    /\ pc = "idle"
    /\ \E b \in U8, v \in Versions :
        /\ pc' = "verify_encoding"
        /\ marker' = b
        /\ version' = v
        /\ result' = verify_encoding(b, v)
        /\ UNCHANGED <<id, content, cursor, arm, prev>>

Next == ParseContent \/ VerifyEncoding

Spec == Init /\ [][Next]_vars

----------------------------------------------------------------------------
(* Two calls for the same identifier: the container parser takes the       *)
(* result of the first call, and prev keeps its identifier and the variant *)
(* it gave.                                                                *)

VariantOf(r) == IF r.tag = "OkSome" THEN r.value.variant ELSE "none"

ParseContentPair ==
    /\ pc = "idle"
    /\ Call(PairContents, IF prev.tag = "call" THEN {prev.id} ELSE Ids)

Return ==
    /\ pc = "parse_content"
    /\ prev.tag = "none"
    /\ prev' = [tag |-> "call", id |-> id, version |-> version,
                variant |-> VariantOf(result)]
    /\ pc' = "idle"
    /\ id' = <<>>
    /\ version' = "V4"
    /\ content' = <<>>
    /\ cursor' = <<>>
    /\ arm' = "none"
    /\ result' = Pending
    /\ UNCHANGED marker

NextPair == ParseContentPair \/ Return

SpecPair == Init /\ [][NextPair]_vars

----------------------------------------------------------------------------
(* Properties.                                                             *)

Called == pc = "parse_content"

TextArm == arm \in {"text", "apple_text"}

NoZero(s) == \A k \in 1..Len(s) : s[k] # 0

\* bytes is a Latin-1 field: text without a zero byte, then a terminator and
\* rest, or text alone to the end of the buffer
LatinField(bytes, text, rest) ==
    /\ NoZero(text)
    /\ \/ bytes = text \o <<0>> \o rest
       \/ bytes = text /\ rest = <<>>

LegalMarker(b, v) == b \in {0, 1} \/ (v # "V2" /\ b \in {2, 3})

NoRule(i) ==
    /\ i \notin {APIC, TXXX, WXXX, COMM, USLT, UFID, POPM, GRP1, MVNM, MVIN}
    /\ ~starts_with(i, "T")
    /\ ~starts_with(i, "W")

Eng == <<101, 110, 103>>
Http == <<104, 116, 116, 112>>
CommScenario == <<0, 101, 110, 103, 0, 104, 105, 0>>
Utf16Scenario == <<1, 101, 110, 103, 255, 254, 104, 0, 0, 0, 254, 255, 0, 105>>

\* C1: verify_encoding accepts exactly the legal markers: on V2 markers 0 and 1
\* give Ok and every other marker, mapped or not, gives V2InvalidTextEncoding;
\* on the newer versions every marker TextEncoding::from_u8 knows gives Ok with
\* its encoding and every other marker the "Found invalid encoding" error.
C1_VerifyEncodingLegalSet ==
    pc = "verify_encoding" =>
        IF version = "V2"
        THEN IF marker = 0 THEN result = Ok("Latin1")
             ELSE IF marker = 1 THEN result = Ok("UTF16")
             ELSE result = Err("V2InvalidTextEncoding", "")
        ELSE IF TextEncoding_from_u8(marker).tag = "Some"
             THEN result = Ok(TextEncoding_from_u8(marker).value)
             ELSE result = Err("TextDecode", "Found invalid encoding")

C1_Witness ==
    /\ pc = "verify_encoding"
    /\ version = "V2"
    /\ marker = 3
    /\ result = Err("V2InvalidTextEncoding", "")

\* C2: a content shorter than the parser's minimum (text: 2 bytes, language: 5
\* bytes, link: 1 byte) gives Ok(None) on every version, whatever its bytes,
\* and leaves the cursor where it was.
C2_ShortContentIsNone ==
    /\ Called
    /\ \/ TextArm /\ Len(content) < 2
       \/ arm = "language" /\ Len(content) < 5
       \/ arm = "link" /\ Len(content) = 0
    => result = OkNone /\ cursor = content

C2_Witness ==
    /\ Called
    /\ arm = "language"
    /\ version = "V2"
    /\ Len(content) = 4
    /\ content[1] = 104
    /\ result = OkNone
    /\ cursor = content

\* C3: an identifier with an exact-match rule is decoded by it and not by a
\* prefix rule: TXXX by the extended-text parser, WXXX by the extended-URL
\* parser, WFED by the text parser, COMM and USLT by the language parser.
C3_ExactMatchFirst ==
    Called =>
        /\ id = TXXX => arm = "TXXX" /\ VariantOf(result) \in {"none", "UserText"}
        /\ id = WXXX => arm = "WXXX" /\ VariantOf(result) \in {"none", "UserURL"}
        /\ id = WFED => arm = "apple_text" /\ VariantOf(result) \in {"none", "Text"}
        /\ id = COMM => arm = "language" /\ VariantOf(result) \in {"none", "Comment"}
        /\ id = USLT => arm = "language" /\ VariantOf(result) \in {"none", "UnSyncText"}

C3_Witness ==
    /\ Called
    /\ id = TXXX
    /\ arm = "TXXX"
    /\ VariantOf(result) = "UserText"

\* C4 as stated: an identifier that matches no rule gives Binary of the whole
\* content, and the cursor is empty afterwards.
C4_Original ==
    Called /\ NoRule(id) => result = OkSome(Binary(content)) /\ cursor = <<>>

\* C4, amended: an identifier that matches no rule gives Binary of the whole
\* content, and the cursor is left as it was: the bytes are copied, not consumed.
C4_BinaryKeepsCursor ==
    Called /\ NoRule(id) => result = OkSome(Binary(content)) /\ cursor = content

C4_Witness ==
    /\ Called
    /\ NoRule(id)
    /\ Len(content) > 0
    /\ result = OkSome(Binary(content))
    /\ cursor = content

\* C5 as stated: on V4 the text parser gives Ok(None) for the UTF-16 marker
\* followed by fewer than 2 bytes.
C5_Original ==
    /\ Called
    /\ TextArm
    /\ version = "V4"
    /\ Len(content) >= 1
    /\ Len(content) < 3
    /\ content[1] = 1
    => result = OkNone

\* C5, amended: the text parser gives Ok(None) exactly for a content of fewer
\* than 2 bytes in all; the UTF-16 marker followed by one byte is decoded, to a
\* Text value with encoding UTF-16 or to the decoder's error.
C5_TwoBytesAreDecoded ==
    Called /\ TextArm =>
        /\ result = OkNone <=> Len(content) < 2
        /\ Len(content) = 2 /\ content[1] = 1 =>
               /\ result.tag \in {"OkSome", "Err"}
               /\ result.tag = "OkSome" =>
                      result.value.variant = "Text" /\ result.value.encoding = "UTF16"

C5_Witness ==
    /\ Called
    /\ TextArm
    /\ version = "V4"
    /\ content = <<1, 0>>
    /\ result.tag = "OkSome"
    /\ result.value.variant = "Text"
    /\ result.value.encoding = "UTF16"

C7_LinkFrames ==
    /\ Called
    /\ starts_with(id, "W")
    /\ id \notin {WXXX, WFED}
    /\ Len(content) > 0
    => /\ arm = "link"
       /\ result.tag = "OkSome"
       /\ result.value.variant = "URL"
       /\ LatinField(content, result.value.value, cursor)
       /\ content = Http => result = OkSome(URL(Http)) /\ cursor = <<>>

C7_Witness ==
    /\ Called
    /\ id = WOAR
    /\ version = "V2"
    /\ content = Http
    /\ result = OkSome(URL(Http))
    /\ cursor = <<>>

\* C8: two calls for the same identifier that both give a value give the same
\* variant, whatever their contents and versions.
C8_VariantByIdentifier ==
    /\ Called
    /\ prev.tag = "call"
    /\ prev.id = id
    /\ prev.variant # "none"
    /\ result.tag = "OkSome"
    => result.value.variant = prev.variant

C8_Witness ==
    /\ Called
    /\ prev.tag = "call"
    /\ prev.id = id
    /\ prev.version # version
    /\ prev.variant = "Comment"
    /\ content = Utf16Scenario
    /\ result.tag = "OkSome"

\* C9: the text parser on [0] ++ s ++ [0] ++ r, s without a zero byte, gives
\* Text with encoding Latin-1 and value s and leaves the cursor at r; without
\* a terminator the value is the whole field and the cursor is empty.
C9_LatinRoundTrip ==
    /\ Called
    /\ TextArm
    /\ Len(content) >= 2
    /\ content[1] = 0
    => /\ result.tag = "OkSome"
       /\ result.value.variant = "Text"
       /\ result.value.encoding = "Latin1"
       /\ LatinField(Tail(content), result.value.value, cursor)

C9_Witness ==
    /\ Called
    /\ TextArm
    /\ content = <<0, 104, 105, 0, 1, 2>>
    /\ result = OkSome(Text("Latin1", <<104, 105>>))
    /\ cursor = <<1, 2>>

\* C10: the language parser is entered for COMM and USLT only, and no call of
\* parse_content reaches its unreachable!() arm.
C10_NoPanic ==
    Called =>
        /\ result.tag # "Panic"
        /\ arm = "language" => id \in {COMM, USLT}

C10_Witness ==
    /\ Called
    /\ arm = "language"
    /\ id = USLT
    /\ result.tag = "OkSome"
    /\ result.value.variant = "UnSyncText"

====
